---------------------------- MODULE Spec2Model ----------------------------
(***************************************************************************)
(* Minesweeper: the board engine and the game controller of                *)
(* MinesweeperGame (src/src/App.tsx, and the AlertDialog variant of the    *)
(* same component in src/unnamed/part_000).                                *)
(*                                                                         *)
(* The controller's React state is the first four variables below.  Every  *)
(* event handler runs to completion and React commits the last value given *)
(* to each setter before the next event is handled, so one handler is one  *)
(* action.  Math.random is a nondeterministic choice.  sampling is the     *)
(* position of a mine-placement loop when such a loop is followed draw by  *)
(* draw, and NotSampling in the game, whose handlers run a loop at once.   *)
(***************************************************************************)
EXTENDS Integers, Sequences, FiniteSets

VARIABLES board, isGameOver, isGameWon, flagsLeft, sampling

vars == <<board, isGameOver, isGameWon, flagsLeft, sampling>>

(* The source plays on 10 x 10 tiles with 15 mines and 10 flags; the model  *)
(* keeps the three constants and scales their values down.                  *)
BOARD_SIZE == 3
NUM_MINES == 3
INITIAL_FLAGS == 2

Idx == 0 .. (BOARD_SIZE - 1)

Cells == Idx \X Idx

(* interface Tile *)
Tile == [isMine : BOOLEAN, isRevealed : BOOLEAN, isFlagged : BOOLEAN,
         adjacentMines : 0 .. 8]

(* The tile literal of createEmptyBoard. *)
BlankTile == [isMine |-> FALSE, isRevealed |-> FALSE, isFlagged |-> FALSE,
              adjacentMines |-> 0]

BlankBoard == [row \in Idx |-> [col \in Idx |-> BlankTile]]

(* The (i, j) pairs of the two nested loops over -1..1, in loop order,      *)
(* without (0, 0).                                                          *)
Offsets == << <<-1, -1>>, <<-1, 0>>, <<-1, 1>>, <<0, -1>>, <<0, 1>>,
              <<1, -1>>, <<1, 0>>, <<1, 1>> >>

InBounds(newRow, newCol) ==
    newRow >= 0 /\ newRow < BOARD_SIZE /\ newCol >= 0 /\ newCol < BOARD_SIZE

(* board.flat() as the set of cells; the helpers below count over it. *)
MineCells(b) == {p \in Cells : b[p[1]][p[2]].isMine}

RevealedCells(b) == {p \in Cells : b[p[1]][p[2]].isRevealed}

FlaggedCells(b) == {p \in Cells : b[p[1]][p[2]].isFlagged}

(* An inner loop that stops one short (j < 1): the neighbours of the       *)
(* right-hand column are not counted.                                       *)
calculateAdjacentMines_SkipsRight(b) ==
    [row \in Idx |-> [col \in Idx |->
        IF ~b[row][col].isMine
        THEN [b[row][col] EXCEPT !.adjacentMines =
                 Cardinality({k \in 1 .. Len(Offsets) :
                     /\ Offsets[k][2] < 1
                     /\ InBounds(row + Offsets[k][1], col + Offsets[k][2])
                     /\ b[row + Offsets[k][1]][col + Offsets[k][2]].isMine})]
        ELSE b[row][col]]]

(* A count that is added to the tile's adjacentMines instead of replacing it.*)
calculateAdjacentMines_Accumulates(b) ==
    [row \in Idx |-> [col \in Idx |->
        IF ~b[row][col].isMine
        THEN [b[row][col] EXCEPT !.adjacentMines = b[row][col].adjacentMines +
                 Cardinality({k \in 1 .. Len(Offsets) :
                     /\ InBounds(row + Offsets[k][1], col + Offsets[k][2])
                     /\ b[row + Offsets[k][1]][col + Offsets[k][2]].isMine})]
        ELSE b[row][col]]]

(* calculateAdjacentMines: every non-mine tile gets the number of mines     *)
(* among its in-bounds neighbours; a mine tile is left as it is.            *)
calculateAdjacentMines(b) ==
    [row \in Idx |-> [col \in Idx |->
        IF ~b[row][col].isMine
        THEN [b[row][col] EXCEPT !.adjacentMines =
                 Cardinality({k \in 1 .. Len(Offsets) :
                     /\ InBounds(row + Offsets[k][1], col + Offsets[k][2])
                     /\ b[row + Offsets[k][1]][col + Offsets[k][2]].isMine})]
        ELSE b[row][col]]]

(* The boards the rejection-sampling loop of placeMines can return: numMines*)
(* more mines on cells that hold no mine and are not the clicked cell.  The *)
(* set is empty when the loop cannot end.                                   *)
placeMines(b, numMines, initialClickRow, initialClickCol) ==
    LET free == {p \in Cells : /\ ~b[p[1]][p[2]].isMine
                               /\ ~(p[1] = initialClickRow /\ p[2] = initialClickCol)}
    IN  {[row \in Idx |-> [col \in Idx |->
            IF <<row, col>> \in S THEN [b[row][col] EXCEPT !.isMine = TRUE]
                                  ELSE b[row][col]]] :
         S \in {T \in SUBSET free : Cardinality(T) = numMines}}

(* A placement loop without the !isMine test of line 38: a cell drawn twice *)
(* is counted twice.                                                        *)
createEmptyBoard_AllowsRepeats ==
    {calculateAdjacentMines(
        [row \in Idx |-> [col \in Idx |->
            IF <<row, col>> \in S THEN [BlankTile EXCEPT !.isMine = TRUE]
                                  ELSE BlankTile]]) :
     S \in {T \in SUBSET Cells : Cardinality(T) >= 1 /\ Cardinality(T) <= NUM_MINES}}

(* The boards createEmptyBoard can return: despite its name it places       *)
(* NUM_MINES mines at random and computes the adjacency counts.             *)
createEmptyBoard ==
    {calculateAdjacentMines(
        [row \in Idx |-> [col \in Idx |->
            IF <<row, col>> \in S THEN [BlankTile EXCEPT !.isMine = TRUE]
                                  ELSE BlankTile]]) :
     S \in {T \in SUBSET Cells : Cardinality(T) = NUM_MINES}}

(* One turn of the while loop of placeMines (lines 51-60) on its locals,    *)
(* for the cell (row, col) that Math.random drew.                           *)
placeMinesDraw_IgnoresInitialClick(st, row, col, initialClickRow, initialClickCol) ==
    IF ~st.newBoard[row][col].isMine
    THEN [newBoard |-> [st.newBoard EXCEPT ![row][col].isMine = TRUE],
          minesPlaced |-> st.minesPlaced + 1]
    ELSE st

placeMinesDraw(st, row, col, initialClickRow, initialClickCol) ==
    IF /\ ~st.newBoard[row][col].isMine
       /\ ~(row = initialClickRow /\ col = initialClickCol)
    THEN [newBoard |-> [st.newBoard EXCEPT ![row][col].isMine = TRUE],
          minesPlaced |-> st.minesPlaced + 1]
    ELSE st

(* One turn of the while loop of createEmptyBoard (lines 35-42). *)
createEmptyBoardDraw(st, row, col) ==
    IF ~st.newBoard[row][col].isMine
    THEN [newBoard |-> [st.newBoard EXCEPT ![row][col].isMine = TRUE],
          minesPlaced |-> st.minesPlaced + 1]
    ELSE st

(* The value of sampling while no placement loop is followed. *)
NotSampling ==
    [fn |-> "none", given |-> BlankBoard, numMines |-> 0, initialClickRow |-> 0,
     initialClickCol |-> 0, minesPlaced |-> 0, pc |-> "none"]

(* A flood fill that tests isRevealed where it calls itself instead of at   *)
(* its own top: a call on a revealed tile expands the tile once more.       *)
RECURSIVE revealTile_GuardAtCallSite(_, _, _), revealNeighbours_GuardAtCallSite(_, _, _, _)
revealTile_GuardAtCallSite(b, row, col) ==
    IF b[row][col].isFlagged
    THEN b
    ELSE LET b1 == [b EXCEPT ![row][col].isRevealed = TRUE]
         IN  IF b[row][col].adjacentMines = 0
             THEN revealNeighbours_GuardAtCallSite(b1, row, col, 1)
             ELSE b1

revealNeighbours_GuardAtCallSite(b, row, col, k) ==
    IF k > Len(Offsets)
    THEN b
    ELSE LET newRow == row + Offsets[k][1]
             newCol == col + Offsets[k][2]
         IN  IF InBounds(newRow, newCol) /\ ~b[newRow][newCol].isRevealed
             THEN LET after == revealTile_GuardAtCallSite(b, newRow, newCol)
                  IN  IF after = b
                      THEN revealNeighbours_GuardAtCallSite(b, row, col, k + 1)
                      ELSE revealNeighbours_GuardAtCallSite(after, row, col, k + 1)
             ELSE revealNeighbours_GuardAtCallSite(b, row, col, k + 1)

(* revealTile.  board.map(row => [...row]) copies the rows and shares the   *)
(* tile objects, so currentTile.isRevealed = true writes the tile of the    *)
(* board given; the recursive calls work on those same tiles and their      *)
(* return values are dropped.  The board threaded through the recursion is  *)
(* the content of the shared tiles.  revealNeighbours is the loop of lines  *)
(* 101-111 from its k-th offset on; it compares the board after the nested  *)
(* call with the board before it, so that the nested call is evaluated      *)
(* before the loop goes on, in the order the code runs.                     *)
RECURSIVE revealTile(_, _, _), revealNeighbours(_, _, _, _)

(* A flood fill that also expands a tile whose count is 1. *)
revealTile_ExpandsOnes(b, row, col) ==
    IF b[row][col].isRevealed \/ b[row][col].isFlagged
    THEN b
    ELSE LET b1 == [b EXCEPT ![row][col].isRevealed = TRUE]
         IN  IF b[row][col].adjacentMines <= 1
             THEN revealNeighbours(b1, row, col, 1)
             ELSE b1

(* A flood fill whose early return tests isRevealed only. *)
revealTile_IgnoresFlags(b, row, col) ==
    IF b[row][col].isRevealed
    THEN b
    ELSE LET b1 == [b EXCEPT ![row][col].isRevealed = TRUE]
         IN  IF b[row][col].adjacentMines = 0
             THEN revealNeighbours(b1, row, col, 1)
             ELSE b1

revealTile(b, row, col) ==
    IF b[row][col].isRevealed \/ b[row][col].isFlagged
    THEN b
    ELSE LET b1 == [b EXCEPT ![row][col].isRevealed = TRUE]
         IN  IF b[row][col].adjacentMines = 0
             THEN revealNeighbours(b1, row, col, 1)
             ELSE b1

revealNeighbours(b, row, col, k) ==
    IF k > Len(Offsets)
    THEN b
    ELSE LET newRow == row + Offsets[k][1]
             newCol == col + Offsets[k][2]
         IN  IF InBounds(newRow, newCol)
             THEN LET after == revealTile(b, newRow, newCol)
                  IN  IF after = b
                      THEN revealNeighbours(b, row, col, k + 1)
                      ELSE revealNeighbours(after, row, col, k + 1)
             ELSE revealNeighbours(b, row, col, k + 1)

(* The tile object held at [row][col] of a board.  Line 92 builds new row   *)
(* arrays that hold the tile objects of the board given, so newBoard,       *)
(* the board given and the boards of the nested calls all hold TileObject   *)
(* (row, col) at [row][col].                                                *)
TileObject(row, col) == <<row, col>>

(* The board given to revealTile, read after the call returned: its arrays  *)
(* are untouched and its tile objects are the ones the call has written.    *)
revealTileGiven(b, row, col) ==
    LET tiles == revealTile(b, row, col)
    IN  [r \in Idx |-> [c \in Idx |->
            tiles[TileObject(r, c)[1]][TileObject(r, c)[2]]]]

(* revealTile with a count of its expansions: the calls that get past the   *)
(* early return of line 95 and reveal their tile.  The count is cut off     *)
(* once it exceeds the number of tiles, which a recursion that expands      *)
(* every tile at most once never reaches.                                   *)
RECURSIVE revealTileCounted(_, _, _), revealNeighboursCounted(_, _, _, _)

(* A counted flood fill whose early return tests isFlagged only. *)
revealTileCounted_NoRevealedGuard(st, row, col) ==
    IF st.expansions > BOARD_SIZE * BOARD_SIZE
    THEN st
    ELSE IF st.board[row][col].isFlagged
         THEN st
         ELSE LET st1 == [board |-> [st.board EXCEPT ![row][col].isRevealed = TRUE],
                          expansions |-> st.expansions + 1]
              IN  IF st.board[row][col].adjacentMines = 0
                  THEN revealNeighboursCounted(st1, row, col, 1)
                  ELSE st1

revealTileCounted(st, row, col) ==
    IF st.expansions > BOARD_SIZE * BOARD_SIZE
    THEN st
    ELSE IF st.board[row][col].isRevealed \/ st.board[row][col].isFlagged
         THEN st
         ELSE LET st1 == [board |-> [st.board EXCEPT ![row][col].isRevealed = TRUE],
                          expansions |-> st.expansions + 1]
              IN  IF st.board[row][col].adjacentMines = 0
                  THEN revealNeighboursCounted(st1, row, col, 1)
                  ELSE st1

revealNeighboursCounted(st, row, col, k) ==
    IF k > Len(Offsets)
    THEN st
    ELSE LET newRow == row + Offsets[k][1]
             newCol == col + Offsets[k][2]
         IN  IF InBounds(newRow, newCol)
             THEN LET after == revealTileCounted(st, newRow, newCol)
                  IN  IF after = st
                      THEN revealNeighboursCounted(st, row, col, k + 1)
                      ELSE revealNeighboursCounted(after, row, col, k + 1)
             ELSE revealNeighboursCounted(st, row, col, k + 1)

(* A win test whose filter forgets !tile.isMine. *)
checkWinCondition_CountsRevealed(b) ==
    Cardinality({p \in Cells : b[p[1]][p[2]].isRevealed})
        = BOARD_SIZE * BOARD_SIZE - NUM_MINES

(* A win test that also wants every mine flagged. *)
checkWinCondition_MinesFlagged(b) ==
    /\ Cardinality({p \in Cells : b[p[1]][p[2]].isRevealed /\ ~b[p[1]][p[2]].isMine})
           = BOARD_SIZE * BOARD_SIZE - NUM_MINES
    /\ \A p \in Cells : b[p[1]][p[2]].isMine => b[p[1]][p[2]].isFlagged

checkWinCondition(b) ==
    Cardinality({p \in Cells : b[p[1]][p[2]].isRevealed /\ ~b[p[1]][p[2]].isMine})
        = BOARD_SIZE * BOARD_SIZE - NUM_MINES

(* A force-reveal that leaves flagged tiles covered. *)
revealBoard_SkipFlagged(b) ==
    [row \in Idx |-> [col \in Idx |->
        IF b[row][col].isFlagged THEN b[row][col]
                                 ELSE [b[row][col] EXCEPT !.isRevealed = TRUE]]]

revealBoard(b) ==
    [row \in Idx |-> [col \in Idx |-> [b[row][col] EXCEPT !.isRevealed = TRUE]]]

(* The controller's state as one value. *)
State(b, over, won, flags) ==
    [board |-> b, isGameOver |-> over, isGameWon |-> won, flagsLeft |-> flags]

cur == State(board, isGameOver, isGameWon, flagsLeft)

(* GameStatus of the spec, read off the two flags of the component. *)
StatusOf(s) ==
    IF s.isGameOver THEN "Lost" ELSE IF s.isGameWon THEN "Won" ELSE "InProgress"

Status == StatusOf(cur)

(* A loss branch that shows the mines only: isRevealed = isMine. *)
tileClickOutcome_LossShowsMinesOnly(s, newBoard, row, col) ==
    IF newBoard[row][col].isMine
    THEN [s EXCEPT !.isGameOver = TRUE,
                   !.board = [r \in Idx |-> [c \in Idx |->
                       [newBoard[r][c] EXCEPT !.isRevealed = newBoard[r][c].isMine]]]]
    ELSE IF checkWinCondition(newBoard)
         THEN [s EXCEPT !.isGameWon = TRUE, !.board = revealBoard(newBoard)]
         ELSE [s EXCEPT !.board = newBoard]

(* A win branch that keeps the board of the reveal and drops revealBoard. *)
tileClickOutcome_WinKeepsBoard(s, newBoard, row, col) ==
    IF newBoard[row][col].isMine
    THEN [s EXCEPT !.isGameOver = TRUE, !.board = revealBoard(newBoard)]
    ELSE IF checkWinCondition(newBoard)
         THEN [s EXCEPT !.isGameWon = TRUE, !.board = newBoard]
         ELSE [s EXCEPT !.board = newBoard]

(* Lines 153-169 of handleTileClick, after newBoard = revealTile(board, ...):*)
(* the loss test reads the clicked tile of newBoard whether or not the call *)
(* revealed it.  board and newBoard share their tiles, so revealBoard(board)*)
(* is revealBoard of the content of newBoard; the last setBoard stands.     *)
tileClickOutcome(s, newBoard, row, col) ==
    IF newBoard[row][col].isMine
    THEN [s EXCEPT !.isGameOver = TRUE, !.board = revealBoard(newBoard)]
    ELSE IF checkWinCondition(newBoard)
         THEN [s EXCEPT !.isGameWon = TRUE, !.board = revealBoard(newBoard)]
         ELSE [s EXCEPT !.board = newBoard]

(* A click handler without the early return of line 143. *)
handleTileClick_NoTerminalGuard(s, row, col) ==
    LET firstClick == \A p \in Cells :
            ~s.board[p[1]][p[2]].isMine /\ ~s.board[p[1]][p[2]].isRevealed
        placed == IF firstClick
                  THEN {calculateAdjacentMines(nb) :
                           nb \in placeMines(s.board, NUM_MINES, row, col)}
                  ELSE {s.board}
    IN  {tileClickOutcome(s, revealTile(s.board, row, col), row, col) :
         pb \in placed}

(* handleTileClick: the states the component can hold after the handler,    *)
(* one for every board placeMines can return in the first-click branch.     *)
(* revealTile(board, ...) is given the board of the closure, also when that *)
(* branch has just handed a mine-placed board to setBoard; the later        *)
(* setBoard of the same handler replaces that value.                        *)
handleTileClick(s, row, col) ==
    IF s.isGameOver \/ s.isGameWon
    THEN {s}
    ELSE LET firstClick == \A p \in Cells :
                 ~s.board[p[1]][p[2]].isMine /\ ~s.board[p[1]][p[2]].isRevealed
             placed == IF firstClick
                       THEN {calculateAdjacentMines(nb) :
                                nb \in placeMines(s.board, NUM_MINES, row, col)}
                       ELSE {s.board}
         IN  {tileClickOutcome(s, revealTile(s.board, row, col), row, col) :
              pb \in placed}

(* A flag handler that stores a fresh tile literal instead of writing       *)
(* isFlagged on the tile it found.                                          *)
handleTileRightClick_ReplacesTile(s, row, col) ==
    IF s.isGameOver \/ s.isGameWon
    THEN s
    ELSE IF ~s.board[row][col].isRevealed
         THEN IF s.board[row][col].isFlagged
              THEN [s EXCEPT !.board[row][col] = BlankTile,
                             !.flagsLeft = s.flagsLeft + 1]
              ELSE IF s.flagsLeft > 0
                   THEN [s EXCEPT !.board[row][col] =
                                      [BlankTile EXCEPT !.isFlagged = TRUE],
                                  !.flagsLeft = s.flagsLeft - 1]
                   ELSE s
         ELSE s

(* A flag handler with a plain else where line 185 tests flagsLeft > 0. *)
handleTileRightClick_Unclamped(s, row, col) ==
    IF s.isGameOver \/ s.isGameWon
    THEN s
    ELSE IF ~s.board[row][col].isRevealed
         THEN IF s.board[row][col].isFlagged
              THEN [s EXCEPT !.board[row][col].isFlagged = FALSE,
                             !.flagsLeft = s.flagsLeft + 1]
              ELSE [s EXCEPT !.board[row][col].isFlagged = TRUE,
                             !.flagsLeft = s.flagsLeft - 1]
         ELSE s

(* A flag handler whose unflag branch forgets setFlagsLeft(prev + 1). *)
handleTileRightClick_NoRefund(s, row, col) ==
    IF s.isGameOver \/ s.isGameWon
    THEN s
    ELSE IF ~s.board[row][col].isRevealed
         THEN IF s.board[row][col].isFlagged
              THEN [s EXCEPT !.board[row][col].isFlagged = FALSE]
              ELSE IF s.flagsLeft > 0
                   THEN [s EXCEPT !.board[row][col].isFlagged = TRUE,
                                  !.flagsLeft = s.flagsLeft - 1]
                   ELSE s
         ELSE s

(* A flag handler without the isRevealed test of line 181. *)
handleTileRightClick_FlagsRevealed(s, row, col) ==
    IF s.isGameOver \/ s.isGameWon
    THEN s
    ELSE IF s.board[row][col].isFlagged
         THEN [s EXCEPT !.board[row][col].isFlagged = FALSE,
                        !.flagsLeft = s.flagsLeft + 1]
         ELSE IF s.flagsLeft > 0
              THEN [s EXCEPT !.board[row][col].isFlagged = TRUE,
                             !.flagsLeft = s.flagsLeft - 1]
              ELSE s

handleTileRightClick(s, row, col) ==
    IF s.isGameOver \/ s.isGameWon
    THEN s
    ELSE IF ~s.board[row][col].isRevealed
         THEN IF s.board[row][col].isFlagged
              THEN [s EXCEPT !.board[row][col].isFlagged = FALSE,
                             !.flagsLeft = s.flagsLeft + 1]
              ELSE IF s.flagsLeft > 0
                   THEN [s EXCEPT !.board[row][col].isFlagged = TRUE,
                                  !.flagsLeft = s.flagsLeft - 1]
                   ELSE s
         ELSE s

(* A reset that forgets setFlagsLeft(INITIAL_FLAGS). *)
handleReset_KeepsFlagsLeft(s) ==
    {State(b, FALSE, FALSE, s.flagsLeft) : b \in createEmptyBoard}

handleReset(s) ==
    {State(b, FALSE, FALSE, INITIAL_FLAGS) : b \in createEmptyBoard}

(* <AlertDialog open={isGameOver} onOpenChange={setIsGameOver}>: the open   *)
(* dialog reports its dismissal by onOpenChange(false).                     *)
dismissGameOver(s) == [s EXCEPT !.isGameOver = FALSE]

dismissGameWon(s) == [s EXCEPT !.isGameWon = FALSE]

Commit(t) ==
    /\ board' = t.board
    /\ isGameOver' = t.isGameOver
    /\ isGameWon' = t.isGameWon
    /\ flagsLeft' = t.flagsLeft
    /\ sampling' = sampling

(* useState(createEmptyBoard()), useState(false) twice, useState(INITIAL_FLAGS) *)
Init ==
    /\ board \in createEmptyBoard
    /\ isGameOver = FALSE
    /\ isGameWon = FALSE
    /\ flagsLeft = INITIAL_FLAGS
    /\ sampling = NotSampling

HandleTileClick(row, col) ==
    \E t \in handleTileClick(cur, row, col) : Commit(t)

HandleTileRightClick(row, col) ==
    Commit(handleTileRightClick(cur, row, col))

HandleReset == \E t \in handleReset(cur) : Commit(t)

DismissGameOver == isGameOver /\ Commit(dismissGameOver(cur))

DismissGameWon == isGameWon /\ Commit(dismissGameWon(cur))

Next ==
    \/ \E row \in Idx, col \in Idx : HandleTileClick(row, col)
    \/ \E row \in Idx, col \in Idx : HandleTileRightClick(row, col)
    \/ HandleReset

Spec == Init /\ [][Next]_vars

(* The component of src/unnamed/part_000: the same handlers, and the two    *)
(* dialogs bound to isGameOver and isGameWon.                               *)
NextDialog ==
    \/ \E row \in Idx, col \in Idx : HandleTileClick(row, col)
    \/ \E row \in Idx, col \in Idx : HandleTileRightClick(row, col)
    \/ HandleReset
    \/ DismissGameOver
    \/ DismissGameWon

SpecDialog == Init /\ [][NextDialog]_vars

(* The board engine on its own: the functions applied to boards that need  *)
(* not come from a game.  A board of EngineBoards has any set of at most    *)
(* MaxEngineMines mines, any set of at most MaxEngineFlags flagged and of   *)
(* at most MaxEngineRevealed revealed tiles, and either the counts of       *)
(* calculateAdjacentMines or the count 0 on every tile.                     *)
MaxEngineMines == 2
MaxEngineFlags == 1
MaxEngineRevealed == 1

CellSetsUpTo(n) == {T \in SUBSET Cells : Cardinality(T) <= n}

EngineBoard(S, F, R, counted) ==
    LET raw == [row \in Idx |-> [col \in Idx |->
                   [isMine |-> <<row, col>> \in S, isRevealed |-> <<row, col>> \in R,
                    isFlagged |-> <<row, col>> \in F, adjacentMines |-> 0]]]
    IN  IF counted THEN calculateAdjacentMines(raw) ELSE raw

EngineBoards ==
    {EngineBoard(S, F, R, counted) :
        S \in CellSetsUpTo(MaxEngineMines), F \in CellSetsUpTo(MaxEngineFlags),
        R \in CellSetsUpTo(MaxEngineRevealed), counted \in BOOLEAN}

InitEngine ==
    /\ board \in EngineBoards
    /\ isGameOver = FALSE
    /\ isGameWon = FALSE
    /\ flagsLeft = INITIAL_FLAGS
    /\ sampling = NotSampling

ApplyRevealTile(row, col) ==
    /\ board' = revealTile(board, row, col)
    /\ UNCHANGED <<isGameOver, isGameWon, flagsLeft, sampling>>

ApplyCalculateAdjacentMines ==
    /\ board' = calculateAdjacentMines(board)
    /\ UNCHANGED <<isGameOver, isGameWon, flagsLeft, sampling>>

NextEngine ==
    \/ \E row \in Idx, col \in Idx : ApplyRevealTile(row, col)
    \/ ApplyCalculateAdjacentMines

SpecEngine == InitEngine /\ [][NextEngine]_vars

(* The mine-placement loops on their own, one draw of Math.random a step.  *)
(* placeMines is given a board without mines (the blank board, or a board   *)
(* whose tiles carry a flag, a revealed tile and a count), a cell and any   *)
(* number of mines up to one more than the board has cells;                 *)
(* createEmptyBoard runs with NUM_MINES set to any such number.  board      *)
(* holds newBoard.                                                          *)
MineCounts == 0 .. (BOARD_SIZE * BOARD_SIZE + 1)

MarkedBoard ==
    [BlankBoard EXCEPT ![0][0].isFlagged = TRUE,
                       ![1][1].isRevealed = TRUE,
                       ![BOARD_SIZE - 1][BOARD_SIZE - 1].adjacentMines = 1]

InitSampling ==
    /\ \E n \in MineCounts :
          \/ \E b \in {BlankBoard, MarkedBoard}, row \in Idx, col \in Idx :
                /\ board = b
                /\ sampling = [fn |-> "placeMines", given |-> b, numMines |-> n,
                               initialClickRow |-> row, initialClickCol |-> col,
                               minesPlaced |-> 0, pc |-> "loop"]
          \/ /\ board = BlankBoard
             /\ sampling = [fn |-> "createEmptyBoard", given |-> BlankBoard,
                            numMines |-> n, initialClickRow |-> 0,
                            initialClickCol |-> 0, minesPlaced |-> 0, pc |-> "loop"]
    /\ isGameOver = FALSE
    /\ isGameWon = FALSE
    /\ flagsLeft = INITIAL_FLAGS

(* while (minesPlaced < numMines) { draw (row, col); ... } *)
SampleCell(row, col) ==
    /\ sampling.pc = "loop"
    /\ sampling.minesPlaced < sampling.numMines
    /\ LET st == [newBoard |-> board, minesPlaced |-> sampling.minesPlaced]
           next == IF sampling.fn = "placeMines"
                   THEN placeMinesDraw(st, row, col, sampling.initialClickRow,
                                       sampling.initialClickCol)
                   ELSE createEmptyBoardDraw(st, row, col)
       IN  /\ board' = next.newBoard
           /\ sampling' = [sampling EXCEPT !.minesPlaced = next.minesPlaced]
    /\ UNCHANGED <<isGameOver, isGameWon, flagsLeft>>

(* The loop test fails: return newBoard (placeMines, line 62) or            *)
(* calculateAdjacentMines(newBoard) (createEmptyBoard, line 44).            *)
SampleReturn ==
    /\ sampling.pc = "loop"
    /\ ~(sampling.minesPlaced < sampling.numMines)
    /\ board' = IF sampling.fn = "createEmptyBoard"
                THEN calculateAdjacentMines(board)
                ELSE board
    /\ sampling' = [sampling EXCEPT !.pc = "returned"]
    /\ UNCHANGED <<isGameOver, isGameWon, flagsLeft>>

NextSampling ==
    \/ \E row \in Idx, col \in Idx : SampleCell(row, col)
    \/ SampleReturn

SpecSampling == InitSampling /\ [][NextSampling]_vars

(* Math.random draws every cell again and again: a draw that can change    *)
(* the board is not put off for ever.                                       *)
SpecSamplingFair ==
    /\ SpecSampling
    /\ \A row \in Idx, col \in Idx : WF_vars(SampleCell(row, col))
    /\ WF_vars(SampleReturn)

TypeOK ==
    /\ board \in [Idx -> [Idx -> Tile]]
    /\ isGameOver \in BOOLEAN
    /\ isGameWon \in BOOLEAN
    /\ flagsLeft \in 0 .. INITIAL_FLAGS
    /\ sampling.pc \in {"none", "loop", "returned"}
    /\ sampling.minesPlaced \in 0 .. sampling.numMines


-----------------------------------------------------------------------------
(* Properties of the game.                                                  *)

AllRevealed(b) == \A p \in Cells : b[p[1]][p[2]].isRevealed

RevealedAndFlagged(b) ==
    {p \in Cells : b[p[1]][p[2]].isRevealed /\ b[p[1]][p[2]].isFlagged}

Terminal == isGameOver \/ isGameWon

(* C1 as stated: in every reachable state no tile has both isRevealed and   *)
(* isFlagged.                                                               *)
C1_NeverRevealedAndFlagged == RevealedAndFlagged(board) = {}

(* C1 amended: as long as some tile of the board is still covered (that is, *)
(* until revealBoard has force-revealed the board on win or loss), no tile  *)
(* has both isRevealed and isFlagged.                                       *)
C1_NotBothUntilRevealBoard ==
    ~AllRevealed(board) => RevealedAndFlagged(board) = {}

(* A game in progress with a revealed tile, a flagged tile and a tile that  *)
(* is neither.                                                              *)
C1_Witness ==
    /\ Status = "InProgress"
    /\ RevealedCells(board) # {}
    /\ FlaggedCells(board) # {}
    /\ RevealedCells(board) \cup FlaggedCells(board) # Cells

(* C2: the first reveal of a game (no tile revealed yet) never ends the     *)
(* game as Lost, whatever cell is clicked.                                  *)
C2_FirstRevealNeverLoses ==
    [][\A row \in Idx, col \in Idx :
          (Status = "InProgress" /\ RevealedCells(board) = {}
              /\ HandleTileClick(row, col))
          => ~isGameOver']_vars

(* C3: a reveal action during InProgress on a flagged tile, mine or not,    *)
(* changes neither the board nor the status nor the flag counter.           *)
C3_ClickOnFlaggedChangesNothing ==
    [][\A row \in Idx, col \in Idx :
          (Status = "InProgress" /\ board[row][col].isFlagged
              /\ HandleTileClick(row, col))
          => UNCHANGED vars]_vars

(* C4: a reveal action during InProgress on an unrevealed, unflagged mine   *)
(* tile sets the status to Lost and leaves a board with every tile revealed.*)
C4_MineClickLosesAndRevealsAll ==
    \A row \in Idx, col \in Idx :
        (/\ Status = "InProgress"
         /\ board[row][col].isMine
         /\ ~board[row][col].isRevealed
         /\ ~board[row][col].isFlagged)
        => \A t \in handleTileClick(cur, row, col) :
               StatusOf(t) = "Lost" /\ AllRevealed(t.board)

(* A lost game that holds no flag: it was lost on an unflagged mine. *)
C4_Witness ==
    Status = "Lost" /\ FlaggedCells(board) = {} /\ AllRevealed(board)

(* C5: a reveal action during InProgress on a non-mine tile after which     *)
(* every non-mine tile is revealed sets the status to Won, whatever tiles   *)
(* are flagged.                                                             *)
C5_LastSafeRevealWins ==
    \A row \in Idx, col \in Idx :
        (Status = "InProgress" /\ ~board[row][col].isMine)
        => \A t \in handleTileClick(cur, row, col) :
               (\A p \in Cells : t.board[p[1]][p[2]].isMine
                                    \/ t.board[p[1]][p[2]].isRevealed)
               => StatusOf(t) = "Won"

(* A won game in which some mines are flagged and some are not. *)
C5_Witness ==
    /\ Status = "Won"
    /\ FlaggedCells(board) \cap MineCells(board) # {}
    /\ MineCells(board) \ FlaggedCells(board) # {}

(* C6: in a terminal state every reveal action and every flag action leaves *)
(* the board, the status and the flag counter as they are.                  *)
C6_TerminalRejectsTileActions ==
    Terminal =>
        \A row \in Idx, col \in Idx :
            /\ handleTileClick(cur, row, col) = {cur}
            /\ handleTileRightClick(cur, row, col) = cur

(* A won game with flags left in the budget. *)
C6_Witness == Status = "Won" /\ flagsLeft > 0

(* C7: once the status is Won or Lost, every step that is not handleReset   *)
(* keeps the status.                                                        *)
C7_TerminalUntilReset ==
    [][Terminal => (Status' = Status \/ HandleReset)]_vars

(* C8: in every state whose status is Won or Lost every tile is revealed.   *)
C8_TerminalBoardAllRevealed == Terminal => AllRevealed(board)

(* A won game: its mines were never clicked and are revealed. *)
C8_Witness ==
    Status = "Won" /\ \E p \in MineCells(board) : board[p[1]][p[2]].isRevealed

(* C9: handleReset yields status InProgress and a board with no mine and no *)
(* revealed tile, and every board of createEmptyBoard has every field       *)
(* false or zero.                                                           *)
C9_ResetYieldsEmptyBoard ==
    [][HandleReset =>
          /\ Status' = "InProgress"
          /\ MineCells(board') = {}
          /\ RevealedCells(board') = {}
          /\ createEmptyBoard = {BlankBoard}]_vars

(* C10: after handleReset no tile is flagged and flagsLeft equals           *)
(* INITIAL_FLAGS, whatever flags were set before.                           *)
C10_ResetRestoresFlagBudget ==
    \A t \in handleReset(cur) :
        FlaggedCells(t.board) = {} /\ t.flagsLeft = INITIAL_FLAGS

(* A lost game with the whole flag budget spent, about to be reset. *)
C10_Witness ==
    Status = "Lost" /\ flagsLeft = 0 /\ FlaggedCells(board) # {}

(* C11: in every reachable state exactly NUM_MINES tiles are mines, and no  *)
(* reveal action and no flag action adds, removes or moves a mine.          *)
C11_MineCountFixed ==
    /\ Cardinality(MineCells(board)) = NUM_MINES
    /\ \A row \in Idx, col \in Idx :
          /\ \A t \in handleTileClick(cur, row, col) :
                 MineCells(t.board) = MineCells(board)
          /\ MineCells(handleTileRightClick(cur, row, col).board) = MineCells(board)

(* A game in progress after reveals and flags, a mine among the flagged. *)
C11_Witness ==
    /\ Status = "InProgress"
    /\ RevealedCells(board) # {}
    /\ FlaggedCells(board) \cap MineCells(board) # {}
    /\ Cardinality(MineCells(board)) = NUM_MINES

(* The mines among the in-bounds neighbours of cell p: the cells of the     *)
(* board at distance one from p in row, in column or in both.               *)
NeighbourMines(b, p) ==
    {q \in Cells : /\ q # p
                   /\ q[1] - p[1] \in {-1, 0, 1}
                   /\ q[2] - p[2] \in {-1, 0, 1}
                   /\ b[q[1]][q[2]].isMine}

AdjacencyExact(b) ==
    \A p \in Cells :
        ~b[p[1]][p[2]].isMine
            => b[p[1]][p[2]].adjacentMines = Cardinality(NeighbourMines(b, p))

(* A covered board with mines on the cells of S and the same, possibly      *)
(* wrong, count on every tile.                                              *)
StaleBoard(S, count) ==
    [row \in Idx |-> [col \in Idx |->
        [isMine |-> <<row, col>> \in S, isRevealed |-> FALSE,
         isFlagged |-> FALSE, adjacentMines |-> count]]]

CalculateAdjacentMinesExact ==
    \A S \in SUBSET Cells, count \in {0, 8} :
        AdjacencyExact(calculateAdjacentMines(StaleBoard(S, count)))

(* C12: in every reachable state, and after calculateAdjacentMines on any   *)
(* board (any set of mines, any counts before the call), every non-mine     *)
(* tile's adjacentMines is the number of mines among its in-bounds          *)
(* neighbours.                                                              *)
C12_AdjacencyExact ==
    AdjacencyExact(board) /\ CalculateAdjacentMinesExact

(* A game in progress whose corner tile (0, 0) is revealed and shows 3: all *)
(* of its three neighbours are mines.                                       *)
C12_Witness ==
    /\ Status = "InProgress"
    /\ board[0][0].isRevealed
    /\ ~board[0][0].isMine
    /\ board[0][0].adjacentMines = 3

(* C13: a flag action during InProgress flips isFlagged of an unrevealed    *)
(* tile whatever the remaining counter is, and changes nothing on a         *)
(* revealed tile.                                                           *)
C13_FlagActionAlwaysFlips ==
    \A row \in Idx, col \in Idx :
        Status = "InProgress"
        => LET t == handleTileRightClick(cur, row, col)
           IN  IF board[row][col].isRevealed
               THEN t = cur
               ELSE t.board[row][col].isFlagged = ~board[row][col].isFlagged

(* C14: in every reachable state the remaining counter equals the number of *)
(* mines minus the number of flagged tiles.                                 *)
C14_CounterIsMinesMinusFlags ==
    flagsLeft = NUM_MINES - Cardinality(FlaggedCells(board))

(* C15: two consecutive flag actions on the same unrevealed tile during     *)
(* InProgress leave the tile's isFlagged and the remaining counter as they  *)
(* were before the first.                                                   *)
C15_FlagTwiceRoundTrip ==
    \A row \in Idx, col \in Idx :
        (Status = "InProgress" /\ ~board[row][col].isRevealed)
        => LET once == handleTileRightClick(cur, row, col)
               twice == handleTileRightClick(once, row, col)
           IN  /\ twice.board[row][col].isFlagged = board[row][col].isFlagged
               /\ twice.flagsLeft = flagsLeft

(* A game in progress with the budget spent, holding a flagged tile and a   *)
(* covered tile without a flag.                                             *)
C15_Witness ==
    /\ Status = "InProgress"
    /\ flagsLeft = 0
    /\ FlaggedCells(board) # {}
    /\ \E p \in Cells : ~board[p[1]][p[2]].isRevealed /\ ~board[p[1]][p[2]].isFlagged

(* C20: no reveal action and no flag action covers a revealed tile again:   *)
(* the tiles revealed before the action are revealed after it.              *)
C20_RevealedStaysRevealed ==
    \A row \in Idx, col \in Idx :
        /\ \A t \in handleTileClick(cur, row, col) :
               RevealedCells(board) \subseteq RevealedCells(t.board)
        /\ RevealedCells(board)
               \subseteq RevealedCells(handleTileRightClick(cur, row, col).board)

(* A game in progress after several reveals, with a flag set and a mine     *)
(* still covered and unflagged, so that the next click can lose.            *)
C20_Witness ==
    /\ Status = "InProgress"
    /\ Cardinality(RevealedCells(board)) >= 2
    /\ FlaggedCells(board) # {}
    /\ MineCells(board) \ FlaggedCells(board) # {}

(* ---- the board engine, applied to any board (SpecEngine) ---- *)

Neighbours(p) ==
    {q \in Cells : \E k \in 1..Len(Offsets) :
        q = <<p[1] + Offsets[k][1], p[2] + Offsets[k][2]>>}

CascadeHappened == Cardinality(RevealedCells(board)) > MaxEngineRevealed + 1

(* C16: revealTile is idempotent.  For every board and cell, revealTile of  *)
(* an already revealed tile returns a board equal to its input, and         *)
(* revealTile(revealTile(b, r, c), r, c) equals revealTile(b, r, c).        *)
C16_RevealTileIdempotent ==
    \A row \in Idx, col \in Idx :
        LET once == revealTile(board, row, col)
        IN  /\ board[row][col].isRevealed => once = board
            /\ revealTile(once, row, col) = once

(* A flood fill has run and left a revealed zero tile beside a covered one. *)
C16_Witness ==
    /\ CascadeHappened
    /\ \E p \in Cells :
          /\ board[p[1]][p[2]].isRevealed
          /\ board[p[1]][p[2]].adjacentMines = 0
          /\ \E q \in Neighbours(p) : ~board[q[1]][q[2]].isRevealed

(* C17: flood fill never reveals a flagged tile.  For every board and       *)
(* every revealTile call, each covered tile that is flagged before the      *)
(* call is still covered after it, also when it lies inside or next to the  *)
(* zero-adjacency region being expanded.                                    *)
C17_FloodFillSkipsFlagged ==
    \A row \in Idx, col \in Idx : \A p \in Cells :
        board[p[1]][p[2]].isFlagged /\ ~board[p[1]][p[2]].isRevealed
        => ~revealTile(board, row, col)[p[1]][p[2]].isRevealed

(* A flood fill has expanded a zero tile next to a flagged tile, which is   *)
(* still covered.                                                           *)
C17_Witness ==
    /\ CascadeHappened
    /\ \E p \in Cells :
          /\ board[p[1]][p[2]].isFlagged
          /\ ~board[p[1]][p[2]].isRevealed
          /\ \E q \in Neighbours(p) :
                /\ board[q[1]][q[2]].isRevealed
                /\ ~board[q[1]][q[2]].isFlagged
                /\ board[q[1]][q[2]].adjacentMines = 0

(* C18: revealTile terminates.  The recursion never expands a revealed      *)
(* tile, so every expansion reveals a tile that was covered: the number of  *)
(* expansions is the number of tiles the call reveals, at most the number   *)
(* of tiles, also on a board whose tiles are all zero-adjacency; and the    *)
(* counted recursion, never cut off, returns the board of revealTile.       *)
C18_ExpansionsBounded ==
    \A row \in Idx, col \in Idx :
        LET r == revealTileCounted([board |-> board, expansions |-> 0], row, col)
        IN  /\ r.expansions <= BOARD_SIZE * BOARD_SIZE
            /\ r.expansions
                 = Cardinality(RevealedCells(r.board) \ RevealedCells(board))
            /\ r.board = revealTile(board, row, col)

(* A board of zero-adjacency tiles only, all revealed by one flood fill. *)
C18_Witness ==
    /\ MaxEngineRevealed < BOARD_SIZE * BOARD_SIZE
    /\ \A p \in Cells :
          /\ board[p[1]][p[2]].adjacentMines = 0
          /\ board[p[1]][p[2]].isRevealed
          /\ ~board[p[1]][p[2]].isFlagged

(* C19: revealTile does not modify the board it is given.  After            *)
(* revealTile(b, r, c) returns, every tile of b has the isRevealed it had   *)
(* before the call.                                                         *)
C19_GivenBoardUnmodified ==
    \A row \in Idx, col \in Idx : \A p \in Cells :
        revealTileGiven(board, row, col)[p[1]][p[2]].isRevealed
            = board[p[1]][p[2]].isRevealed

(* ---- checkWinCondition, placeMines, calculateAdjacentMines ---- *)

(* The board b with isFlagged set on the cells of F and cleared elsewhere. *)
WithFlags(b, F) ==
    [row \in Idx |-> [col \in Idx |->
        [b[row][col] EXCEPT !.isFlagged = <<row, col>> \in F]]]

(* C21: checkWinCondition(board) is true exactly when the number of tiles   *)
(* that are revealed and not mines is the number of cells minus the mine    *)
(* count, that is when every non-mine tile is revealed; boards that differ  *)
(* only in isFlagged (each the same as the board with no flag, and as the   *)
(* board with every flag) give the same result.                             *)
C21_WinConditionExact ==
    /\ checkWinCondition(board)
         = (Cardinality(RevealedCells(board) \ MineCells(board))
              = BOARD_SIZE * BOARD_SIZE - NUM_MINES)
    /\ checkWinCondition(board)
         = ((Cells \ MineCells(board)) \subseteq RevealedCells(board))
    /\ \A F \in {{}, Cells} \cup {FlaggedCells(board) \ {p} : p \in Cells}
                            \cup {FlaggedCells(board) \cup {p} : p \in Cells} :
          checkWinCondition(WithFlags(board, F)) = checkWinCondition(board)

(* A won game with a flag on the board, and the win test true of it. *)
C21_Witness ==
    /\ isGameWon
    /\ FlaggedCells(board) # {}
    /\ checkWinCondition(board)

(* C22: placeMines(board, n, r, c) on a board with no mines, for every      *)
(* n <= rows * cols - 1, every cell (r, c) and every outcome of the draws,  *)
(* returns a board with exactly n mines in which tile (r, c) is not a mine, *)
(* and changes no field other than isMine.  Throughout the loop             *)
(* minesPlaced is the number of mines on newBoard, and what the loop        *)
(* returns is one of the boards of the operator placeMines.                 *)
C22_PlaceMinesExact ==
    sampling.fn = "placeMines"
    => /\ sampling.minesPlaced = Cardinality(MineCells(board))
       /\ ~board[sampling.initialClickRow][sampling.initialClickCol].isMine
       /\ \A p \in Cells :
             [board[p[1]][p[2]] EXCEPT !.isMine = FALSE] = sampling.given[p[1]][p[2]]
       /\ sampling.pc = "returned"
          => /\ Cardinality(MineCells(board)) = sampling.numMines
             /\ board \in placeMines(sampling.given, sampling.numMines,
                                     sampling.initialClickRow, sampling.initialClickCol)

(* placeMines has returned with the most mines it can place, rows * cols    *)
(* - 1, on the board that carries a flag, a revealed tile and a count.      *)
C22_Witness ==
    /\ sampling.fn = "placeMines"
    /\ sampling.pc = "returned"
    /\ sampling.given = MarkedBoard
    /\ sampling.numMines = BOARD_SIZE * BOARD_SIZE - 1
    /\ Cardinality(MineCells(board)) = BOARD_SIZE * BOARD_SIZE - 1

(* C23: mine placement by rejection sampling terminates, under fair draws,  *)
(* whenever mineCount <= rows * cols - 1 on a mine-free board, and never    *)
(* terminates when mineCount >= rows * cols.                                *)
C23_SamplingTerminatesIffRoom ==
    /\ [](sampling.numMines <= BOARD_SIZE * BOARD_SIZE - 1
            => <>(sampling.pc = "returned"))
    /\ [](sampling.numMines >= BOARD_SIZE * BOARD_SIZE
            => sampling.pc # "returned")

(* C24: a configuration with mineCount >= rows * cols is rejected when the  *)
(* board is built: no placement loop is ever running with such a count.     *)
C24_OversizedConfigRejected ==
    sampling.numMines >= BOARD_SIZE * BOARD_SIZE => sampling.pc # "loop"

(* The board b with adjacentMines = 0 on every tile. *)
WithoutCounts(b) ==
    [row \in Idx |-> [col \in Idx |-> [b[row][col] EXCEPT !.adjacentMines = 0]]]

CalculateAdjacentMinesIdempotent(b) ==
    LET once == calculateAdjacentMines(b)
    IN  /\ calculateAdjacentMines(once) = once
        /\ \A p \in Cells :
              [once[p[1]][p[2]] EXCEPT !.adjacentMines = b[p[1]][p[2]].adjacentMines]
                  = b[p[1]][p[2]]
        /\ \A p \in Cells \ MineCells(b) :
              once[p[1]][p[2]].adjacentMines
                  = calculateAdjacentMines(WithoutCounts(b))[p[1]][p[2]].adjacentMines

IdempotentOnStaleBoards ==
    \A S \in SUBSET Cells, count \in {0, 8} :
        CalculateAdjacentMinesIdempotent(StaleBoard(S, count))

(* C25: calculateAdjacentMines is idempotent and depends only on mine       *)
(* placement.  For every board b, calculateAdjacentMines of                 *)
(* calculateAdjacentMines(b) equals calculateAdjacentMines(b); isMine,      *)
(* isRevealed and isFlagged of every tile are unchanged by it; and the      *)
(* count it gives a non-mine tile is the same whatever counts b carried.    *)
C25_CalculateAdjacentMinesIdempotent ==
    /\ CalculateAdjacentMinesIdempotent(board)
    /\ IdempotentOnStaleBoards

(* Every tile is revealed, a mine among them, and the counts are exact: a   *)
(* flood fill ran over a board of zero counts that holds a mine, and        *)
(* calculateAdjacentMines was applied to its result.                        *)
C25_Witness ==
    /\ RevealedCells(board) = Cells
    /\ MineCells(board) # {}
    /\ AdjacencyExact(board)
    /\ \E p \in Cells : board[p[1]][p[2]].adjacentMines > 0

(* ---- what revealTile reveals ---- *)

(* The least set that holds the cells of S and, for each of its tiles with  *)
(* adjacentMines = 0, every in-bounds neighbour that is covered and not     *)
(* flagged on b.                                                            *)
RECURSIVE FloodRegion(_, _)
FloodRegion(b, S) ==
    LET more == {q \in Cells :
                    /\ ~b[q[1]][q[2]].isRevealed
                    /\ ~b[q[1]][q[2]].isFlagged
                    /\ \E t \in S : /\ b[t[1]][t[2]].adjacentMines = 0
                                    /\ q \in Neighbours(t)}
    IN  IF more \subseteq S THEN S ELSE FloodRegion(b, S \cup more)

(* The board b with the tiles of S revealed and nothing else changed. *)
WithRevealed(b, S) ==
    [row \in Idx |-> [col \in Idx |->
        IF <<row, col>> \in S THEN [b[row][col] EXCEPT !.isRevealed = TRUE]
                              ELSE b[row][col]]]

(* C26: on a board with correct adjacency counts, revealTile(b, r, c) on a  *)
(* covered, unflagged non-mine tile reveals exactly the least set S that    *)
(* holds (r, c) and, for every tile of S with adjacentMines = 0, every      *)
(* in-bounds neighbour that was covered and unflagged; tiles of S with a    *)
(* positive count are revealed and not expanded, and no tile outside S      *)
(* changes.                                                                 *)
C26_RevealsLeastRegion ==
    \A row \in Idx, col \in Idx :
        /\ AdjacencyExact(board)
        /\ ~board[row][col].isRevealed
        /\ ~board[row][col].isFlagged
        /\ ~board[row][col].isMine
        => revealTile(board, row, col)
             = WithRevealed(board, FloodRegion(board, {<<row, col>>}))

(* A flood fill has run on a board with exact counts and a mine: a zero     *)
(* tile and a tile with a positive count are revealed, the mines are not.   *)
C26_Witness ==
    /\ CascadeHappened
    /\ AdjacencyExact(board)
    /\ MineCells(board) # {}
    /\ MineCells(board) \cap RevealedCells(board) = {}
    /\ \E p \in RevealedCells(board) : board[p[1]][p[2]].adjacentMines = 0
    /\ \E p \in RevealedCells(board) : board[p[1]][p[2]].adjacentMines > 0

(* C27: revealTile on a covered, unflagged mine tile reveals only that      *)
(* tile: every other tile's isRevealed is the same in the returned board    *)
(* as in the input.                                                         *)
C27_MineRevealDoesNotSpread ==
    \A row \in Idx, col \in Idx :
        /\ board[row][col].isMine
        /\ ~board[row][col].isRevealed
        /\ ~board[row][col].isFlagged
        => \A p \in Cells \ {<<row, col>>} :
              revealTile(board, row, col)[p[1]][p[2]].isRevealed
                  = board[p[1]][p[2]].isRevealed

(* ---- the controller: first click, flag budget, revealed mines ---- *)

C29_FlagBudgetClamped ==
    /\ flagsLeft = INITIAL_FLAGS - Cardinality(FlaggedCells(board))
    /\ 0 <= flagsLeft
    /\ flagsLeft <= INITIAL_FLAGS

(* The budget is spent, INITIAL_FLAGS tiles are flagged, and a tile has     *)
(* been revealed in the same game.                                          *)
C29_Witness ==
    /\ Status = "InProgress"
    /\ flagsLeft = 0
    /\ Cardinality(FlaggedCells(board)) = INITIAL_FLAGS
    /\ RevealedCells(board) # {}

(* C30: in every reachable state whose status is InProgress no mine tile    *)
(* is revealed.                                                             *)
C30_NoMineRevealedInProgress ==
    Status = "InProgress" => MineCells(board) \cap RevealedCells(board) = {}

(* C31: a flag action changes at most the isFlagged of the targeted tile    *)
(* and the remaining counter.  No tile's isMine, isRevealed or              *)
(* adjacentMines changes, no other tile's isFlagged changes, and the game   *)
(* status is unchanged; the counter moves by one exactly when the flag      *)
(* does.                                                                    *)
C31_FlagActionFrame ==
    \A row \in Idx, col \in Idx :
        LET t == handleTileRightClick(cur, row, col)
        IN  /\ \A p \in Cells :
                  /\ t.board[p[1]][p[2]].isMine = board[p[1]][p[2]].isMine
                  /\ t.board[p[1]][p[2]].isRevealed = board[p[1]][p[2]].isRevealed
                  /\ t.board[p[1]][p[2]].adjacentMines
                        = board[p[1]][p[2]].adjacentMines
                  /\ p # <<row, col>>
                     => t.board[p[1]][p[2]].isFlagged = board[p[1]][p[2]].isFlagged
            /\ t.isGameOver = isGameOver
            /\ t.isGameWon = isGameWon
            /\ StatusOf(t) = Status
            /\ (t.flagsLeft # flagsLeft)
                  = (t.board[row][col].isFlagged # board[row][col].isFlagged)

(* A game in progress in which a mine with a positive count around it has   *)
(* been flagged, beside a revealed tile.                                    *)
C31_Witness ==
    /\ Status = "InProgress"
    /\ flagsLeft < INITIAL_FLAGS
    /\ \E p \in FlaggedCells(board) \cap MineCells(board) :
          \E q \in Neighbours(p) :
              /\ board[q[1]][q[2]].isRevealed
              /\ board[q[1]][q[2]].adjacentMines > 0

=============================================================================
